---- MODULE Spec2Model ----
(***************************************************************************)
(* Model of the trivia REST backend (backend/flaskr/__init__.py).          *)
(*                                                                         *)
(* The state is the questions table, the id sequence of that table, the    *)
(* request being served and the response sent for it.  Every route handler *)
(* is one action.  Texts are sequences of one-character strings, so that   *)
(* pattern matching, integer parsing and formatting are computed, not      *)
(* assumed.                                                                *)
(***************************************************************************)
EXTENDS Integers, Sequences, FiniteSets, TLC

VARIABLES questions, next_id, req, resp, session

vars == <<questions, next_id, req, resp, session>>

(***************************************************************************)
(* Bounds of the model.                                                    *)
(***************************************************************************)
MaxId == 3
MaxRows == 11
MaxRounds == 4

(***************************************************************************)
(* Texts.                                                                  *)
(***************************************************************************)
Digits == <<"0", "1", "2", "3", "4", "5", "6", "7", "8", "9">>

IsDigit(c) == \E i \in 1..10 : Digits[i] = c

DigitVal(c) == (CHOOSE i \in 1..10 : Digits[i] = c) - 1

AllDigits(s) == \A i \in 1..Len(s) : IsDigit(s[i])

RECURSIVE DecimalValue(_)
DecimalValue(s) ==
    IF s = <<>> THEN 0
    ELSE 10 * DecimalValue(SubSeq(s, 1, Len(s) - 1)) + DigitVal(s[Len(s)])

RECURSIVE DecimalText(_)
DecimalText(n) ==
    IF n < 10 THEN <<Digits[n + 1]>>
    ELSE DecimalText(n \div 10) \o <<Digits[(n % 10) + 1]>>

\* An optionally signed decimal literal (the texts of this model hold no
\* blanks).
IsIntegerLiteral(s) ==
    \/ s # <<>> /\ AllDigits(s)
    \/ Len(s) > 1 /\ s[1] = "-" /\ AllDigits(Tail(s))

IntegerValue(s) ==
    IF s[1] = "-" THEN 0 - DecimalValue(Tail(s)) ELSE DecimalValue(s)

Lower(c) ==
    CASE c = "A" -> "a"
      [] c = "B" -> "b"
      [] OTHER -> c

(***************************************************************************)
(* JSON values of a request body: null, a number, a string, or an object   *)
(* (a function from its keys to values).                                   *)
(***************************************************************************)
NoMembers == <<>>

JNull == [t |-> "null", n |-> 0, s |-> <<>>, m |-> NoMembers]

JNum(n) == [t |-> "num", n |-> n, s |-> <<>>, m |-> NoMembers]

JStr(s) == [t |-> "str", n |-> 0, s |-> s, m |-> NoMembers]

JList(l) == [t |-> "list", n |-> 0, s |-> l, m |-> NoMembers]

JObj(m) == [t |-> "obj", n |-> 0, s |-> <<>>, m |-> m]

Ok(v) == [exc |-> "none", v |-> v]

Raise(e) == [exc |-> e, v |-> JNull]

\* body[key] of Python: KeyError for a dict without the key, TypeError for
\* None, a number, a string or a list subscripted by a string.
Subscript(body, key) ==
    IF body.t = "obj"
    THEN IF key \in DOMAIN body.m THEN Ok(body.m[key]) ELSE Raise("KeyError")
    ELSE Raise("TypeError")

\* value.get(key) of Python: the member or None for a dict, AttributeError
\* for anything that is not a dict.
DictGet(value, key) ==
    IF value.t = "obj"
    THEN IF key \in DOMAIN value.m THEN Ok(value.m[key]) ELSE Ok(JNull)
    ELSE Raise("AttributeError")

\* int(value) of Python: TypeError for None, a dict or a list, ValueError for
\* a string that is not a decimal literal.
PyInt(value) ==
    CASE value.t = "num" -> Ok(JNum(value.n))
      [] value.t = "str" ->
            IF IsIntegerLiteral(value.s)
            THEN Ok(JNum(IntegerValue(value.s)))
            ELSE Raise("ValueError")
      [] OTHER -> Raise("TypeError")

(***************************************************************************)
(* The storage layer: the questions table and the Question entity.         *)
(***************************************************************************)
\* A text bound to an integer column: its value, or DataError.
IntegerOfText(s) ==
    IF IsIntegerLiteral(s)
    THEN Ok(JNum(IntegerValue(s)))
    ELSE Raise("DataError")

\* A JSON value bound to an integer column (the bodies of this model bind
\* numbers and texts).
IntegerColumn(value) ==
    CASE value.t = "num" -> Ok(value)
      [] value.t = "str" -> IntegerOfText(value.s)
      [] OTHER -> Raise("DataError")

Ids(rows) == {q.id : q \in rows}

\* Question.format()
format(q) ==
    [id |-> q.id, question |-> q.question, answer |-> q.answer,
     category |-> q.category, difficulty |-> q.difficulty]

RECURSIVE OrderById(_)
OrderById(rows) ==
    IF rows = {} THEN <<>>
    ELSE LET first == CHOOSE q \in rows : \A r \in rows : q.id <= r.id
         IN  <<first>> \o OrderById(rows \ {first})

\* SELECT ... ORDER BY id LIMIT limit OFFSET offset; the engine rejects a
\* negative LIMIT or OFFSET.
LimitOffset(rows, limit, offset) ==
    IF limit < 0 \/ offset < 0 THEN Raise("DataError")
    ELSE LET all == OrderById(rows)
             last == IF offset + limit < Len(all) THEN offset + limit
                     ELSE Len(all)
         IN  Ok(SubSeq(all, offset + 1, last))

\* Question.insert(): the row is stored under the next id of the sequence.
insert(rows, id, question, answer, category, difficulty) ==
    rows \cup {[id |-> id, question |-> question, answer |-> answer,
                category |-> category, difficulty |-> difficulty]}

\* Question.delete()
delete(rows, q) == rows \ {q}

\* Question.query.get(ident): the row of that primary key, or no row.
QueryGet(rows, ident) == {q \in rows : q.id = ident}

(***************************************************************************)
(* Responses.                                                              *)
(***************************************************************************)
Message(code) ==
    CASE code = 400 -> "Bad Request"
      [] code = 404 -> "Not Found"
      [] code = 422 -> "Unprocessable Entity"
      [] OTHER -> "Internal Server Error"

\* abort(code), or an exception no handler catches (500).
ErrorResponse(code) ==
    [status |-> code, success |-> FALSE, error |-> code,
     message |-> Message(code)]

NoRequest == [op |-> "none"]

NoResponse == [status |-> 0]

NoSession ==
    [active |-> FALSE, category |-> 0, previous |-> <<>>, rounds |-> 0,
     changed |-> FALSE]

(***************************************************************************)
(* GET /questions                                                          *)
(***************************************************************************)
Absent == <<>>

Given(text) == <<text>>

\* request.args.get(name, default, type=int): the default when the argument
\* is absent or is no integer literal.
ArgInt(arg, default) ==
    IF arg = Absent THEN default
    ELSE LET text == arg[1]
         IN  IF IsIntegerLiteral(text) THEN IntegerValue(text) ELSE default

DefaultLimit == 10

DefaultPage == 1

\* The handler with the offset taken as page * limit.
GetQuestionsResponseOffByOne(rows, limitArg, pageArg) ==
    LET limit == ArgInt(limitArg, DefaultLimit)
        page == ArgInt(pageArg, DefaultPage)
        found == LimitOffset(rows, limit, page * limit)
    IN  IF found.exc # "none" THEN ErrorResponse(500)
        ELSE LET current_questions ==
                     [i \in 1..Len(found.v) |-> format(found.v[i])]
             IN  IF Len(current_questions) = 0 THEN ErrorResponse(404)
                 ELSE [status |-> 200, success |-> TRUE,
                       questions |-> current_questions,
                       total_questions |-> Cardinality(rows),
                       current_category |-> JNull]

\* The handler without the abort for an empty page.
GetQuestionsResponseNoAbort(rows, limitArg, pageArg) ==
    LET limit == ArgInt(limitArg, DefaultLimit)
        page == ArgInt(pageArg, DefaultPage)
        found == LimitOffset(rows, limit, (page - 1) * limit)
    IN  IF found.exc # "none" THEN ErrorResponse(500)
        ELSE [status |-> 200, success |-> TRUE,
              questions |-> [i \in 1..Len(found.v) |-> format(found.v[i])],
              total_questions |-> Cardinality(rows),
              current_category |-> JNull]

GetQuestionsResponse(rows, limitArg, pageArg) ==
    LET limit == ArgInt(limitArg, DefaultLimit)
        page == ArgInt(pageArg, DefaultPage)
        found == LimitOffset(rows, limit, (page - 1) * limit)
    IN  IF found.exc # "none" THEN ErrorResponse(500)
        ELSE LET current_questions ==
                     [i \in 1..Len(found.v) |-> format(found.v[i])]
             IN  IF Len(current_questions) = 0 THEN ErrorResponse(404)
                 ELSE [status |-> 200, success |-> TRUE,
                       questions |-> current_questions,
                       total_questions |-> Cardinality(rows),
                       current_category |-> JNull]

get_questions(limitArg, pageArg) ==
    /\ req' = [op |-> "get_questions", limit |-> limitArg, page |-> pageArg]
    /\ resp' = GetQuestionsResponse(questions, limitArg, pageArg)
    /\ UNCHANGED <<questions, next_id, session>>

(***************************************************************************)
(* DELETE /questions/<question_id>                                         *)
(***************************************************************************)
\* The handler without the AttributeError of a missing row.
DeleteOutcomeNoCheck(rows, question_id) ==
    LET ident == IntegerOfText(question_id)
    IN  IF ident.exc # "none"
        THEN [rows |-> rows, resp |-> ErrorResponse(400)]
        ELSE [rows |-> rows \ QueryGet(rows, ident.v.n),
              resp |-> [status |-> 200, success |-> TRUE,
                        deleted |-> question_id]]

DeleteOutcome(rows, question_id) ==
    LET ident == IntegerOfText(question_id)
    IN  IF ident.exc # "none"
        THEN [rows |-> rows, resp |-> ErrorResponse(400)]
        ELSE LET question == QueryGet(rows, ident.v.n)
             IN  IF question = {}
                 THEN [rows |-> rows, resp |-> ErrorResponse(404)]
                 ELSE [rows |-> delete(rows, CHOOSE q \in question : TRUE),
                       resp |-> [status |-> 200, success |-> TRUE,
                                 deleted |-> question_id]]

delete_step(question_id) ==
    LET out == DeleteOutcome(questions, question_id)
    IN  /\ req' = [op |-> "delete_question", question_id |-> question_id]
        /\ questions' = out.rows
        /\ resp' = out.resp
        /\ UNCHANGED next_id

delete_question(question_id) ==
    /\ delete_step(question_id)
    /\ UNCHANGED session

(***************************************************************************)
(* POST /questions                                                         *)
(* The bodies of this model carry texts in question and answer; difficulty *)
(* and category are bound to integer columns.                              *)
(***************************************************************************)
\* The handler without the except clause for KeyError.
CreateOutcomeNoKeyError(rows, id, body) ==
    LET new_question == Subscript(body, "question")
        new_answer == Subscript(body, "answer")
        new_difficulty == Subscript(body, "difficulty")
        new_category == Subscript(body, "category")
        unchanged(code) ==
            [rows |-> rows, next_id |-> id, resp |-> ErrorResponse(code)]
    IN  IF new_question.exc = "TypeError" THEN unchanged(400)
        ELSE IF \E r \in {new_question, new_answer, new_difficulty,
                          new_category} : r.exc = "KeyError"
        THEN unchanged(500)
        ELSE LET difficulty == IntegerColumn(new_difficulty.v)
                 category == IntegerColumn(new_category.v)
             IN  IF difficulty.exc # "none" \/ category.exc # "none"
                 THEN unchanged(500)
                 ELSE [rows |-> insert(rows, id, new_question.v.s,
                                       new_answer.v.s, category.v.n,
                                       difficulty.v.n),
                       next_id |-> id + 1,
                       resp |-> [status |-> 200, success |-> TRUE,
                                 created |-> id]]

CreateOutcome(rows, id, body) ==
    LET new_question == Subscript(body, "question")
        new_answer == Subscript(body, "answer")
        new_difficulty == Subscript(body, "difficulty")
        new_category == Subscript(body, "category")
        unchanged(code) ==
            [rows |-> rows, next_id |-> id, resp |-> ErrorResponse(code)]
    IN  IF \E r \in {new_question, new_answer, new_difficulty, new_category} :
               r.exc \in {"KeyError", "TypeError"}
        THEN unchanged(400)
        ELSE LET difficulty == IntegerColumn(new_difficulty.v)
                 category == IntegerColumn(new_category.v)
             IN  IF difficulty.exc # "none" \/ category.exc # "none"
                 THEN unchanged(500)
                 ELSE [rows |-> insert(rows, id, new_question.v.s,
                                       new_answer.v.s, category.v.n,
                                       difficulty.v.n),
                       next_id |-> id + 1,
                       resp |-> [status |-> 200, success |-> TRUE,
                                 created |-> id]]

create_step(body) ==
    LET out == CreateOutcome(questions, next_id, body)
    IN  /\ next_id <= MaxId
        /\ req' = [op |-> "create_question", body |-> body]
        /\ questions' = out.rows
        /\ next_id' = out.next_id
        /\ resp' = out.resp

create_question(body) ==
    /\ create_step(body)
    /\ UNCHANGED session

(***************************************************************************)
(* POST /questions/search                                                  *)
(***************************************************************************)
\* f'{value}' of Python, for a text, a number or None
FormatText(value) ==
    CASE value.t = "str" -> value.s
      [] value.t = "num" -> DecimalText(value.n)
      [] OTHER -> <<"N", "o", "n", "e">>

\* text ILIKE pattern: % matches any run of characters, _ any one character,
\* a backslash takes the next character literally; letters match in either
\* case.
RECURSIVE ILike(_, _)
ILike(text, pattern) ==
    IF pattern = <<>> THEN text = <<>>
    ELSE CASE Head(pattern) = "%" ->
                  \/ ILike(text, Tail(pattern))
                  \/ text # <<>> /\ ILike(Tail(text), pattern)
           [] Head(pattern) = "_" ->
                  text # <<>> /\ ILike(Tail(text), Tail(pattern))
           [] Head(pattern) = "\\" /\ Len(pattern) > 1 ->
                  /\ text # <<>>
                  /\ Lower(Head(text)) = Lower(pattern[2])
                  /\ ILike(Tail(text), Tail(Tail(pattern)))
           [] OTHER ->
                  /\ text # <<>>
                  /\ Lower(Head(text)) = Lower(Head(pattern))
                  /\ ILike(Tail(text), Tail(pattern))

SearchResponse(rows, body) ==
    LET query == Subscript(body, "query")
    IN  IF query.exc \in {"KeyError", "TypeError"} THEN ErrorResponse(400)
        ELSE LET pattern == <<"%">> \o FormatText(query.v) \o <<"%">>
                 found == {q \in rows : ILike(q.question, pattern)}
             IN  [status |-> 200, success |-> TRUE,
                  questions |-> {format(q) : q \in found},
                  total_questions |-> Cardinality(found),
                  current_category |-> JNull]

search_question(body) ==
    /\ req' = [op |-> "search_question", body |-> body]
    /\ resp' = SearchResponse(questions, body)
    /\ UNCHANGED <<questions, next_id, session>>

(***************************************************************************)
(* GET /categories/<category_id>/questions                                 *)
(***************************************************************************)
\* The handler filtering on the id of the question.
ByCategoryResponseOnId(rows, category_id) ==
    LET ident == IntegerOfText(category_id)
    IN  IF ident.exc # "none" THEN ErrorResponse(400)
        ELSE LET found == {q \in rows : q.id = ident.v.n}
             IN  [status |-> 200, success |-> TRUE,
                  questions |-> {format(q) : q \in found},
                  total_questions |-> Cardinality(found),
                  current_category |-> category_id]

ByCategoryResponse(rows, category_id) ==
    LET ident == IntegerOfText(category_id)
    IN  IF ident.exc # "none" THEN ErrorResponse(400)
        ELSE LET found == {q \in rows : q.category = ident.v.n}
             IN  [status |-> 200, success |-> TRUE,
                  questions |-> {format(q) : q \in found},
                  total_questions |-> Cardinality(found),
                  current_category |-> category_id]

get_questions_by_category(category_id) ==
    /\ req' = [op |-> "get_questions_by_category",
               category_id |-> category_id]
    /\ resp' = ByCategoryResponse(questions, category_id)
    /\ UNCHANGED <<questions, next_id, session>>

(***************************************************************************)
(* POST /quizzes                                                           *)
(* The bodies of this model carry previous_questions as a list of ids.     *)
(***************************************************************************)
Range(list) == {list[i] : i \in 1..Len(list)}

\* The query without the filter on the category.
CandidatesAnyCategory(rows, previous_questions, category_id) ==
    {q \in rows : q.id \notin Range(previous_questions)}

\* The query without the filter on the previous questions.
CandidatesSeenToo(rows, previous_questions, category_id) ==
    IF category_id # 0
    THEN {q \in rows : q.category = category_id}
    ELSE rows

\* The rows the query of the handler selects.
Candidates(rows, previous_questions, category_id) ==
    IF category_id # 0
    THEN {q \in rows : q.id \notin Range(previous_questions)
                       /\ q.category = category_id}
    ELSE {q \in rows : q.id \notin Range(previous_questions)}

\* Every response the handler can give: random.randrange(0, len(questions))
\* draws any index of the list, and raises ValueError for an empty list.
QuizResponses(rows, body) ==
    LET previous_questions == Subscript(body, "previous_questions")
        quiz_category == Subscript(body, "quiz_category")
        id == IF quiz_category.exc = "none"
              THEN DictGet(quiz_category.v, "id") ELSE quiz_category
        category_id == IF id.exc = "none" THEN PyInt(id.v) ELSE id
        raised == IF previous_questions.exc # "none"
                  THEN previous_questions.exc ELSE category_id.exc
    IN  IF raised \in {"KeyError", "TypeError"} THEN {ErrorResponse(400)}
        ELSE IF raised # "none" THEN {ErrorResponse(500)}
        ELSE LET found == Candidates(rows, previous_questions.v.s,
                                     category_id.v.n)
             IN  IF found = {} THEN {ErrorResponse(500)}
                 ELSE {[status |-> 200, success |-> TRUE,
                        question |-> format(q)] : q \in found}

play_quiz_step(body) ==
    /\ req' = [op |-> "play_quiz", body |-> body]
    /\ resp' \in QuizResponses(questions, body)
    /\ UNCHANGED <<questions, next_id>>

play_quiz(body) ==
    /\ play_quiz_step(body)
    /\ UNCHANGED session

(***************************************************************************)
(* Inputs and specifications.                                              *)
(***************************************************************************)
Texts == {<<"a", "B">>, <<"b", "_">>}

LimitArgs ==
    {Absent, Given(<<"0">>), Given(<<"2">>), Given(<<"4">>),
     Given(<<"-", "1">>), Given(<<"a">>)}

PageArgs ==
    {Absent, Given(<<"0">>), Given(<<"2">>), Given(<<"3">>), Given(<<"a">>)}

Member(key, value) == key :> value

CreateBodies ==
    {JObj(Member("question", JStr(t)) @@ Member("answer", JStr(<<"x">>))
              @@ Member("difficulty", d) @@ Member("category", c)) :
         t \in Texts, d \in {JNum(1), JStr(<<"h">>)},
         c \in {JNum(1), JNum(2), JStr(<<"2">>), JStr(<<"a">>)}}
        \cup {JObj([k \in {"question", "answer", "difficulty", "category"}
                        \ {missing} |-> JNum(1)]) :
                  missing \in {"question", "answer", "difficulty", "category"}}
        \cup {JNull, JStr(<<"a">>), JList(<<>>)}

SearchBodies ==
    {JObj(Member("query", JStr(q))) :
         q \in {<<>>, <<"a">>, <<"b">>, <<"A", "b">>, <<"B", "a">>, <<"%">>,
                <<"_">>, <<"\\">>, <<"a", "%">>, <<"_", "a">>}}
        \cup {JObj(Member("query", JNum(1))), JObj(Member("no_query", JNum(1))),
              JNull, JStr(<<"a">>)}

Categories ==
    {<<"0">>, <<"1">>, <<"2">>, <<"0", "2">>, <<"-", "1">>, <<"o", "n", "e">>}

QuizCategories ==
    {JObj(Member("type", JStr(<<"a">>)) @@ Member("id", i)) :
         i \in {JNum(0), JNum(1), JNum(2), JStr(<<"1">>), JStr(<<"a">>), JNull}}
        \cup {JObj(Member("type", JStr(<<"a">>))), JNull, JStr(<<"1">>)}

Previous == {JList(l) : l \in {<<>>, <<1>>, <<1, 2, 3>>}}

QuizBodies ==
    {JObj(Member("previous_questions", p) @@ Member("quiz_category", c)) :
         p \in Previous, c \in QuizCategories}
        \cup {JObj(Member("previous_questions", p)) : p \in Previous}
        \cup {JObj(Member("quiz_category", c)) : c \in QuizCategories}
        \cup {JNull, JList(<<>>)}

Paths ==
    {DecimalText(i) : i \in 1..(MaxId + 1)}
        \cup {<<"0", "1">>, <<"-", "1">>, <<"a">>, <<"1", "a">>}

Preloaded(n) ==
    {[id |-> i, question |-> <<"a", "B">>, answer |-> <<"x">>,
      category |-> 1 + (i % 2), difficulty |-> 1] : i \in 1..n}

Init ==
    /\ questions = {}
    /\ next_id = 1
    /\ req = NoRequest
    /\ resp = NoResponse
    /\ session = NoSession

Next ==
    \/ \E limitArg \in LimitArgs, pageArg \in PageArgs :
           get_questions(limitArg, pageArg)
    \/ \E question_id \in Paths : delete_question(question_id)
    \/ \E body \in CreateBodies : create_question(body)
    \/ \E body \in SearchBodies : search_question(body)
    \/ \E category_id \in Categories : get_questions_by_category(category_id)
    \/ \E body \in QuizBodies : play_quiz(body)

Spec == Init /\ [][Next]_vars

(***************************************************************************)
(* A quiz session: the client posts the ids it has been given so far and   *)
(* adds the id of every question it is given.                              *)
(***************************************************************************)
SessionBody(s) ==
    JObj(Member("previous_questions", JList(s.previous))
             @@ Member("quiz_category",
                       JObj(Member("type", JStr(<<"a">>))
                                @@ Member("id", JNum(s.category)))))

start_quiz(category) ==
    /\ session' = [active |-> TRUE, category |-> category,
                   previous |-> <<>>, rounds |-> 0, changed |-> FALSE]
    /\ UNCHANGED <<questions, next_id, req, resp>>

quiz_round ==
    /\ session.active
    /\ session.rounds < MaxRounds
    /\ play_quiz_step(SessionBody(session))
    /\ session' =
           [session EXCEPT
               !.rounds = @ + 1,
               !.previous = IF resp'.status = 200
                            THEN Append(@, resp'.question.id) ELSE @]

\* The table changes while the session runs.
Touched(s, response) ==
    IF response.status = 200 THEN [s EXCEPT !.changed = TRUE] ELSE s

create_between_rounds(body) ==
    /\ create_step(body)
    /\ session' = Touched(session, resp')

delete_between_rounds(question_id) ==
    /\ delete_step(question_id)
    /\ session' = Touched(session, resp')

SessionCategories == {0, 1, 2}

SessionCreateBodies ==
    {JObj(Member("question", JStr(<<"a", "B">>))
              @@ Member("answer", JStr(<<"x">>))
              @@ Member("difficulty", JNum(1)) @@ Member("category", c)) :
         c \in {JNum(1), JNum(2)}}

NextQuiz ==
    \/ \E category \in SessionCategories : start_quiz(category)
    \/ quiz_round
    \/ \E body \in SessionCreateBodies : create_between_rounds(body)
    \/ \E i \in 1..MaxId : delete_between_rounds(DecimalText(i))

SpecQuiz == Init /\ [][NextQuiz]_vars

InitPage ==
    /\ \E n \in 0..MaxRows : questions = Preloaded(n) /\ next_id = n + 1
    /\ req = NoRequest
    /\ resp = NoResponse
    /\ session = NoSession

NextPage ==
    \/ \E limitArg \in LimitArgs, pageArg \in PageArgs :
           get_questions(limitArg, pageArg)
    \/ \E question_id \in Paths : delete_question(question_id)

SpecPage == InitPage /\ [][NextPage]_vars

(***************************************************************************)
(* What the claims speak of.                                               *)
(***************************************************************************)
Min(a, b) == IF a < b THEN a ELSE b

\* The number of stored questions of a smaller id: the position, from 0, in
\* the list ordered by id.
Position(q, rows) == Cardinality({r \in rows : r.id < q.id})

\* A query argument as the claim reads it: the given number, or the default
\* for an absent argument; -1 stands for an argument that is no number.
Requested(arg, default) ==
    IF arg = Absent THEN default
    ELSE IF arg[1] # <<>> /\ AllDigits(arg[1]) THEN DecimalValue(arg[1])
    ELSE 0 - 1

\* C1: for limit >= 1 and page >= 1 (limit 10 and page 1 when absent) with a
\* non-empty slice, GET /questions succeeds with exactly the questions at
\* positions (page-1)*limit .. (page-1)*limit+limit-1 of the list ordered by
\* id, in that order, and total_questions is the number of stored questions.
C1_Page ==
    req.op = "get_questions" =>
        LET limit == Requested(req.limit, 10)
            page == Requested(req.page, 1)
            offset == (page - 1) * limit
            total == Cardinality(questions)
        IN  (limit >= 1 /\ page >= 1 /\ offset < total) =>
                /\ resp.status = 200
                /\ Len(resp.questions) = Min(limit, total - offset)
                /\ \A i \in 1..Len(resp.questions) :
                       \E q \in questions :
                           /\ Position(q, questions) = offset + i - 1
                           /\ resp.questions[i] = format(q)
                /\ resp.total_questions = total

\* The default limit cuts a table of more than ten questions, and the second
\* page holds the rest.
C1_Witness ==
    /\ req.op = "get_questions"
    /\ req.limit = Absent
    /\ req.page = Given(<<"2">>)
    /\ resp.status = 200
    /\ Cardinality(questions) > 10
    /\ Len(resp.questions) = Cardinality(questions) - 10

\* C8: GET /questions answers 404 exactly when the requested page (page >= 1,
\* limit >= 0) is empty, which covers every page beyond the last one and
\* every page of an empty table; a success never carries an empty list.
C8_NotFound ==
    req.op = "get_questions" =>
        LET limit == Requested(req.limit, 10)
            page == Requested(req.page, 1)
            empty == limit = 0 \/ (page - 1) * limit >= Cardinality(questions)
        IN  /\ (limit >= 0 /\ page >= 1) =>
                   /\ resp.status \in {200, 404}
                   /\ resp.status = 404 <=> empty
            /\ resp.status = 404 =>
                   LET l == ArgInt(req.limit, DefaultLimit)
                       p == ArgInt(req.page, DefaultPage)
                   IN  l = 0 \/ (p - 1) * l >= Cardinality(questions)
            /\ resp.status = 200 => Len(resp.questions) > 0

\* A page beyond the last one of a table that holds questions.
C8_Witness ==
    /\ req.op = "get_questions"
    /\ req.page = Given(<<"3">>)
    /\ req.limit = Given(<<"4">>)
    /\ Cardinality(questions) \in 5..8
    /\ resp.status = 404

HasKeys(body, keys) == body.t = "obj" /\ keys \subseteq DOMAIN body.m

\* C2: DELETE /questions/{id} for a stored id succeeds, returns the id as it
\* was given, and removes that question and no other; for an id that is not
\* stored it answers 404 and removes nothing; and no request other than a
\* create brings an id back, so a second DELETE of the same id answers 404.
C2_Delete ==
    [][/\ req'.op = "delete_question" /\ IsIntegerLiteral(req'.question_id) =>
              LET id == IntegerValue(req'.question_id)
              IN  IF id \in Ids(questions)
                  THEN /\ resp'.status = 200
                       /\ resp'.deleted = req'.question_id
                       /\ Cardinality(questions') = Cardinality(questions) - 1
                       /\ questions' \subseteq questions
                       /\ id \notin Ids(questions')
                  ELSE /\ resp'.status = 404
                       /\ questions' = questions
       /\ req'.op # "create_question" => Ids(questions') \subseteq Ids(questions)
      ]_vars

\* The DELETE of an id that was generated earlier and is stored no more.
C2_Witness ==
    /\ req.op = "delete_question"
    /\ IsIntegerLiteral(req.question_id)
    /\ IntegerValue(req.question_id) \in 1..(next_id - 1)
    /\ resp.status = 404
    /\ questions # {}

RequiredFields == {"question", "answer", "difficulty", "category"}

IntegerShaped(value) ==
    \/ value.t = "num"
    \/ value.t = "str" /\ IsIntegerLiteral(value.s)

\* What the claim says of a create that succeeds: one more question, under an
\* id above every id generated before.
Created ==
    /\ resp'.status = 200
    /\ Cardinality(questions') = Cardinality(questions) + 1
    /\ questions \subseteq questions'
    /\ resp'.created \in Ids(questions') \ Ids(questions)
    /\ resp'.created >= next_id
    /\ next_id' > resp'.created
    /\ \A q \in questions : q.id < next_id

Rejected ==
    /\ resp'.status = 400
    /\ questions' = questions

C9_ByCategory ==
    req.op = "get_questions_by_category" =>
        IF IsIntegerLiteral(req.category_id)
        THEN LET id == IntegerValue(req.category_id)
             IN  /\ resp.status = 200
                 /\ \A q \in questions :
                        format(q) \in resp.questions <=> q.category = id
                 /\ \A f \in resp.questions : \E q \in questions : f = format(q)
                 /\ resp.total_questions = Cardinality(resp.questions)
                 /\ resp.current_category = req.category_id
        ELSE resp.status = 400

\* Some stored questions match the category and some do not.
C9_Witness ==
    /\ req.op = "get_questions_by_category"
    /\ resp.status = 200
    /\ resp.questions # {}
    /\ Cardinality(resp.questions) < Cardinality(questions)

\* The request of POST /quizzes as the claims read it.
QuizKeys == {"previous_questions", "quiz_category"}

\* quiz_category carries an id that is a number or an integer literal.
NumericCategory(body) ==
    /\ HasKeys(body, QuizKeys)
    /\ HasKeys(body.m["quiz_category"], {"id"})
    /\ IntegerShaped(body.m["quiz_category"].m["id"])

CategoryOf(body) ==
    LET id == body.m["quiz_category"].m["id"]
    IN  IF id.t = "num" THEN id.n ELSE IntegerValue(id.s)

SeenIn(body) == Range(body.m["previous_questions"].s)

\* The questions the claims call the candidate set.
Eligible(rows, seen, category) ==
    {q \in rows : q.id \notin seen /\ (category # 0 => q.category = category)}

\* C4: a question returned by POST /quizzes is stored, is not among
\* previous_questions and, for a category id other than 0, is of that
\* category; for the category id 0 every stored question that is not among
\* previous_questions can be returned.
C4_Quiz ==
    /\ (req.op = "play_quiz" /\ resp.status = 200) =>
           /\ NumericCategory(req.body)
           /\ \E q \in questions :
                  /\ resp.question = format(q)
                  /\ q.id \notin SeenIn(req.body)
                  /\ CategoryOf(req.body) # 0 =>
                         q.category = CategoryOf(req.body)
    /\ \A body \in QuizBodies :
           (NumericCategory(body) /\ CategoryOf(body) = 0) =>
               \A q \in questions :
                   q.id \notin SeenIn(body) =>
                       ENABLED (/\ play_quiz(body)
                                /\ resp'.status = 200
                                /\ resp'.question = format(q))

\* With the category id 0 and a seen question, a question of category 2 is
\* returned while one of category 1 is stored too.
C4_Witness ==
    /\ req.op = "play_quiz"
    /\ resp.status = 200
    /\ NumericCategory(req.body)
    /\ CategoryOf(req.body) = 0
    /\ SeenIn(req.body) = {1}
    /\ resp.question.category = 2
    /\ \E q \in questions : q.category = 1 /\ q.id # 1

\* C5: a well-formed POST /quizzes whose candidate set is empty is given a
\* defined response and does not end in 500.
C5_EmptyCandidates ==
    (/\ req.op = "play_quiz"
     /\ NumericCategory(req.body)
     /\ Eligible(questions, SeenIn(req.body), CategoryOf(req.body)) = {}) =>
        resp.status # 500

\* C6: POST /quizzes answers 400 for every body in which previous_questions
\* or quiz_category is absent or malformed: no JSON object, a missing key, a
\* quiz_category without an id or with an id that is no number.
C6_BadRequest ==
    (req.op = "play_quiz" /\ ~NumericCategory(req.body)) => resp.status = 400

\* The query occurs in the text, letters compared in either case.
Contains(text, query) ==
    \E i \in 0..(Len(text) - Len(query)) :
        \A j \in 1..Len(query) : Lower(text[i + j]) = Lower(query[j])

\* C7: POST /questions/search returns exactly the stored questions whose text
\* contains the query as a literal substring, in either case, their count and
\* a null current category; a body without a query is answered 400.
C7_LiteralSearch ==
    req.op = "search_question" =>
        IF HasKeys(req.body, {"query"})
        THEN /\ resp.status = 200
             /\ req.body.m["query"].t = "str" =>
                    resp.questions =
                        {format(q) : q \in
                            {r \in questions :
                                Contains(r.question, req.body.m["query"].s)}}
             /\ resp.total_questions = Cardinality(resp.questions)
             /\ resp.current_category = JNull
        ELSE resp.status = 400

\* C10: in a quiz session no question id is returned twice, whatever is
\* created or deleted between the rounds; and while nothing was created or
\* deleted, with N questions eligible for the category of the session, each
\* of the first N rounds returns a question and the N rounds together return
\* the N eligible questions.
C10_Session ==
    session.active =>
        /\ \A i, j \in 1..Len(session.previous) :
               session.previous[i] = session.previous[j] => i = j
        /\ ~session.changed =>
               LET eligible == Ids(Eligible(questions, {}, session.category))
                   N == Cardinality(eligible)
               IN  /\ Range(session.previous) \subseteq eligible
                   /\ session.rounds <= N =>
                          Len(session.previous) = session.rounds
                   /\ session.rounds >= N => Range(session.previous) = eligible

\* Three rounds over all categories have returned the three stored questions,
\* which are of two categories.
C10_Witness ==
    /\ session.active
    /\ ~session.changed
    /\ session.category = 0
    /\ session.rounds = 3
    /\ Range(session.previous) = Ids(questions)
    /\ Cardinality(questions) = 3
    /\ Cardinality({q.category : q \in questions}) = 2

====
